---- MODULE Spec2Model ----
(***************************************************************************)
(* Model of src/Final.py, a Streamlit dashboard over a survey table.       *)
(*                                                                         *)
(* Streamlit executes the script from its first line to its last on start  *)
(* and again on every widget change; an exception that is not caught ends  *)
(* the run at the line that raised it.  The state is the loaded frame, the *)
(* sidebar widgets' values and what the latest run computed.               *)
(*                                                                         *)
(* A record of the frame carries the six columns the script reads.         *)
(* Countries are numbered in the alphabetical order of their names, which  *)
(* is the order groupby('country') lists them in.  A timestamp is          *)
(* <<month, day>>, month counted from a fixed origin.  A real number is    *)
(* [num, den] in lowest terms; 0/0 is NaN.                                 *)
(***************************************************************************)
EXTENDS Integers, Sequences, FiniteSets, TLC

VARIABLES df, selected_countries, selected_genders, age_filter, selected_kpi,
          selected_chart_feature, filtered_data, country_counts,
          family_history_by_country, metrics, time_data, tabs_done, error

vars == <<df, selected_countries, selected_genders, age_filter, selected_kpi,
          selected_chart_feature, filtered_data, country_counts,
          family_history_by_country, metrics, time_data, tabs_done, error>>

widgets == <<selected_countries, selected_genders, age_filter, selected_kpi,
             selected_chart_feature>>

----------------------------------------------------------------------------
(* Bounds of the model and constants of the program *)

MaxRows == 2

MaxTrendRows == 3

MaxMonth == 3

NumCountries == 11

DefaultAgeMin == 20

DefaultAgeMax == 50

TopN == 10

YesNo == {"Yes", "No"}

KpiOptions == {"age", "treatment", "family_history"}

ChartOptions == {"age", "treatment", "family_history", "gender"}

TabNames == <<"Overview", "KPIs", "Visualizations", "Trend Prediction", "Data Table">>

----------------------------------------------------------------------------
(* Arithmetic *)

Abs(x) == IF x < 0 THEN -x ELSE x

RECURSIVE GCD(_, _)
GCD(a, b) == IF b = 0 THEN a ELSE GCD(b, a % b)

NaN == [num |-> 0, den |-> 0]

Rat(n, d) ==
    LET g == GCD(Abs(n), Abs(d))
        s == IF d < 0 THEN -1 ELSE 1
    IN  [num |-> (s * n) \div g, den |-> (s * d) \div g]

SetMin(S) == CHOOSE x \in S : \A y \in S : x <= y

SetMax(S) == CHOOSE x \in S : \A y \in S : y <= x

RECURSIVE SortedSeq(_)
SortedSeq(S) ==
    IF S = {} THEN <<>> ELSE LET m == SetMin(S) IN <<m>> \o SortedSeq(S \ {m})

RECURSIVE SumSeq(_)
SumSeq(s) == IF s = <<>> THEN 0 ELSE Head(s) + SumSeq(Tail(s))

\* n/d (d > 0) to the nearest integer, a half going to the even neighbour
RoundHalfEven(n, d) ==
    LET q == n \div d
        r == n % d
    IN  IF 2 * r > d \/ (2 * r = d /\ q % 2 = 1) THEN q + 1 ELSE q

----------------------------------------------------------------------------
(* Frame helpers *)

Column(frame, col) == [i \in DOMAIN frame |-> frame[i][col]]

unique(frame, col) == {frame[i][col] : i \in DOMAIN frame}

Where(frame, col, v) == {i \in DOMAIN frame : frame[i][col] = v}

value_counts(frame, col) ==
    [v \in unique(frame, col) |-> Cardinality(Where(frame, col, v))]

head(table, n) == SubSeq(table, 1, IF Len(table) < n THEN Len(table) ELSE n)

----------------------------------------------------------------------------
(* Sidebar: lines 15-46 *)

filtered_countries(frame, selected) ==
    IF selected = {} THEN unique(frame, "country") ELSE selected

filtered_genders(frame, selected) ==
    IF selected = {} THEN unique(frame, "gender") ELSE selected

\* st.slider widens its bounds to hold the default value
slider_min(frame) ==
    LET lo == SetMin(unique(frame, "age"))
    IN  IF DefaultAgeMin < lo THEN DefaultAgeMin ELSE lo

slider_max(frame) ==
    LET hi == SetMax(unique(frame, "age"))
    IN  IF DefaultAgeMax > hi THEN DefaultAgeMax ELSE hi

age_default == <<DefaultAgeMin, DefaultAgeMax>>

betweenExclusive(x, left, right) == left < x /\ x < right

between(x, left, right) == left <= x /\ x <= right

applyFilter(frame, countries, genders, age) ==
    LET mask(r) == /\ r.country \in filtered_countries(frame, countries)
                   /\ r.gender \in filtered_genders(frame, genders)
                   /\ between(r.age, age[1], age[2])
    IN  SelectSeq(frame, mask)

----------------------------------------------------------------------------
(* One run of the script: what it has computed so far, the tabs it has     *)
(* finished, and the exception that ended it ("none": still running).      *)

Start(view) ==
    [filtered_data |-> view, country_counts |-> <<>>,
     family_history_by_country |-> <<>>, metrics |-> <<>>, time_data |-> <<>>,
     tabs_done |-> <<>>, error |-> "none"]

----------------------------------------------------------------------------
(* Tab 1, Overview: lines 60-87 *)

\* groupby('country')['family_history'].value_counts().unstack(fill_value=0):
\* a row per country of the view, in ascending country order, and a column
\* per family_history value that occurs anywhere in the view
family_history_table(view) ==
    LET countries == SortedSeq(unique(view, "country"))
        columns == unique(view, "family_history")
        cell(c, v) == Cardinality({i \in DOMAIN view :
                          view[i].country = c /\ view[i].family_history = v})
    IN  [k \in DOMAIN countries |->
            [country |-> countries[k],
             counts |-> [v \in columns |-> cell(countries[k], v)]]]

\* sort_values(by=..., ascending=False) with the default kind, quicksort,
\* which is not stable: the rows come out in non-increasing order of the
\* column, rows with equal values in any order.  The set of the orders.
RECURSIVE sort_orders(_, _)
sort_orders(rows, by) ==
    IF rows = {} THEN {<<>>}
    ELSE LET top == SetMax({r.counts[by] : r \in rows})
         IN  UNION {{<<r>> \o rest : rest \in sort_orders(rows \ {r}, by)} :
                        r \in {x \in rows : x.counts[by] = top}}

RECURSIVE sort_orders_ascending(_, _)
sort_orders_ascending(rows, by) ==
    IF rows = {} THEN {<<>>}
    ELSE LET low == SetMin({r.counts[by] : r \in rows})
         IN  UNION {{<<r>> \o rest : rest \in sort_orders_ascending(rows \ {r}, by)} :
                        r \in {x \in rows : x.counts[by] = low}}

sort_values_ascending(table, by) ==
    sort_orders_ascending({table[k] : k \in DOMAIN table}, by)

sort_values(table, by) == sort_orders({table[k] : k \in DOMAIN table}, by)

Overview(run) ==
    LET view == run.filtered_data
        table == family_history_table(view)
        counted == [run EXCEPT !.country_counts = value_counts(view, "country")]
    IN  IF run.error # "none" THEN {run}
        ELSE IF "Yes" \notin unique(view, "family_history")
        THEN {[counted EXCEPT !.error = "KeyError"]}
        ELSE {[counted EXCEPT !.family_history_by_country = head(sorted, TopN),
                              !.tabs_done = Append(@, TabNames[1])] :
                 sorted \in sort_values(table, "Yes")}

----------------------------------------------------------------------------
(* Tab 2, KPIs: lines 90-96.  The three metrics are written in turn; the   *)
(* mean of a column of "Yes"/"No" strings raises TypeError.                *)

mean(view, col) ==
    IF view = <<>> THEN NaN
    ELSE Rat(RoundHalfEven(100 * SumSeq(Column(view, col)), Len(view)), 100)

treatment_rate(view) ==
    IF view = <<>> THEN NaN
    ELSE Rat(RoundHalfEven(1000 * Cardinality(Where(view, "treatment", "Yes")),
                           Len(view)), 10)

KPIs(run, kpi) ==
    LET view == run.filtered_data
        total == ("Total Entries" :> Rat(Len(view), 1))
        rate == ("Currently Receiving Treatment" :> treatment_rate(view))
    IN  IF run.error # "none" THEN run
        ELSE IF kpi # "age" /\ view # <<>>
        THEN [run EXCEPT !.metrics = total, !.error = "TypeError"]
        ELSE [run EXCEPT
                !.metrics = total @@ rate @@
                    ("Average" :> IF kpi = "age" THEN mean(view, "age") ELSE NaN),
                !.tabs_done = Append(@, TabNames[2])]

----------------------------------------------------------------------------
(* Tab 3, Visualizations: lines 99-111.  The charts are drawn by plotly.   *)

Visualizations(run, feature) ==
    IF run.error # "none" THEN run
    ELSE [run EXCEPT !.tabs_done = Append(@, TabNames[3])]

----------------------------------------------------------------------------
(* Tab 4, Trend Prediction: lines 114-131 *)

MonthOf(timestamp) == timestamp[1]

resample_observed(view) ==
    LET months == SortedSeq({MonthOf(view[i].timestamp) : i \in DOMAIN view})
    IN  [k \in DOMAIN months |->
            [timestamp |-> months[k],
             treatment |-> Cardinality({i \in DOMAIN view :
                              MonthOf(view[i].timestamp) = months[k]})]]

\* set_index('timestamp').resample('M')['treatment'].count(): a bin per
\* calendar month from the first month of the view to its last
resample_count(view) ==
    IF view = <<>> THEN <<>>
    ELSE LET months == {MonthOf(view[i].timestamp) : i \in DOMAIN view}
             first == SetMin(months)
             last == SetMax(months)
         IN  [k \in 1..(last - first + 1) |->
                [timestamp |-> first + k - 1,
                 treatment |-> Cardinality({i \in DOMAIN view :
                                  MonthOf(view[i].timestamp) = first + k - 1})]]

RatAdd(p, q) == Rat(p.num * q.den + q.num * p.den, p.den * q.den)

RatMul(p, q) == Rat(p.num * q.num, p.den * q.den)

LinearRegressionNoIntercept(y) ==
    LET n == Len(y)
        Sxx == SumSeq([k \in 1..n |-> (k - 1) * (k - 1)])
        Sxy == SumSeq([k \in 1..n |-> (k - 1) * y[k]])
    IN  [coef |-> IF n = 1 THEN Rat(0, 1) ELSE Rat(Sxy, Sxx), intercept |-> Rat(0, 1)]

\* LinearRegression().fit(X, y) with X = 0, 1, .., n-1: the least-squares
\* line; through one sample, the horizontal line (the minimum-norm solution)
LinearRegression(y) ==
    LET n == Len(y)
        Sx == SumSeq([k \in 1..n |-> k - 1])
        Sxx == SumSeq([k \in 1..n |-> (k - 1) * (k - 1)])
        Sy == SumSeq(y)
        Sxy == SumSeq([k \in 1..n |-> (k - 1) * y[k]])
        D == n * Sxx - Sx * Sx
        N == n * Sxy - Sx * Sy
    IN  IF n = 1 THEN [coef |-> Rat(0, 1), intercept |-> Rat(y[1], 1)]
        ELSE [coef |-> Rat(N, D), intercept |-> Rat(Sy * D - N * Sx, n * D)]

predict(model, x) == RatAdd(RatMul(model.coef, Rat(x, 1)), model.intercept)

TrendPrediction(run) ==
    LET counts == resample_count(run.filtered_data)
        model == LinearRegression([k \in DOMAIN counts |-> counts[k].treatment])
    IN  IF run.error # "none" THEN run
        ELSE IF counts = <<>>
        THEN [run EXCEPT !.error = "ValueError"]
        ELSE [run EXCEPT
                !.time_data = [k \in DOMAIN counts |->
                    [timestamp |-> counts[k].timestamp,
                     treatment |-> counts[k].treatment,
                     month_index |-> k - 1,
                     predicted_treatment |-> predict(model, k - 1)]],
                !.tabs_done = Append(@, TabNames[4])]

----------------------------------------------------------------------------
(* Tab 5, Data Table: lines 134-137 *)

DataTable(run) ==
    IF run.error # "none" THEN run
    ELSE [run EXCEPT !.tabs_done = Append(@, TabNames[5])]

----------------------------------------------------------------------------
(* The whole script.  A run starts from the frame as read and the widgets' *)
(* values; it reads nothing of the rows the run before it kept (previous:  *)
(* the whole frame before the first run).                                  *)

Pipeline(view, kpi, feature) ==
    {DataTable(TrendPrediction(Visualizations(KPIs(r, kpi), feature))) :
        r \in Overview(Start(view))}

ScriptRunsNarrowing(frame, previous, countries, genders, age, kpi, feature) ==
    Pipeline(applyFilter(previous, countries, genders, age), kpi, feature)

ScriptRuns(frame, previous, countries, genders, age, kpi, feature) ==
    Pipeline(applyFilter(frame, countries, genders, age), kpi, feature)

Publish(run) ==
    /\ filtered_data' = run.filtered_data
    /\ country_counts' = run.country_counts
    /\ family_history_by_country' = run.family_history_by_country
    /\ metrics' = run.metrics
    /\ time_data' = run.time_data
    /\ tabs_done' = run.tabs_done
    /\ error' = run.error

Rerun ==
    \E run \in ScriptRuns(df, filtered_data, selected_countries', selected_genders',
                          age_filter', selected_kpi', selected_chart_feature') :
        Publish(run)

----------------------------------------------------------------------------
(* The dashboard: the first run, then a run per widget change *)

Row(c, g, a, t, f, m, d) ==
    [country |-> c, gender |-> g, age |-> a, treatment |-> t,
     family_history |-> f, timestamp |-> <<m, d>>]

Survey ==
    <<Row(1, "Male", 30, "Yes", "Yes", 0, 1),
      Row(1, "Female", 60, "No", "No", 0, 28),
      Row(2, "Male", 19, "No", "Yes", 1, 1),
      Row(2, "Female", 60, "Yes", "No", 2, 28)>>

\* the frames of 1..MaxRows rows of the survey, in the survey's order
Datasets ==
    {[k \in 1..Cardinality(I) |-> Survey[SortedSeq(I)[k]]] :
        I \in {J \in SUBSET DOMAIN Survey : J # {} /\ Cardinality(J) <= MaxRows}}

SliderStops(frame) ==
    {a \in unique(frame, "age") \cup {DefaultAgeMin, DefaultAgeMax} :
        slider_min(frame) <= a /\ a <= slider_max(frame)}

Init ==
    /\ df \in Datasets
    /\ selected_countries = {}
    /\ selected_genders = {}
    /\ age_filter = age_default
    /\ selected_kpi = "age"
    /\ selected_chart_feature = "age"
    /\ \E run \in ScriptRuns(df, df, {}, {}, age_default, "age", "age") :
          /\ filtered_data = run.filtered_data
          /\ country_counts = run.country_counts
          /\ family_history_by_country = run.family_history_by_country
          /\ metrics = run.metrics
          /\ time_data = run.time_data
          /\ tabs_done = run.tabs_done
          /\ error = run.error

SelectCountries ==
    /\ \E chosen \in SUBSET unique(df, "country") :
          chosen # selected_countries /\ selected_countries' = chosen
    /\ UNCHANGED <<df, selected_genders, age_filter, selected_kpi,
                   selected_chart_feature>>
    /\ Rerun

SelectGenders ==
    /\ \E chosen \in SUBSET unique(df, "gender") :
          chosen # selected_genders /\ selected_genders' = chosen
    /\ UNCHANGED <<df, selected_countries, age_filter, selected_kpi,
                   selected_chart_feature>>
    /\ Rerun

SlideAge ==
    /\ \E lo \in SliderStops(df), hi \in SliderStops(df) :
          lo <= hi /\ <<lo, hi>> # age_filter /\ age_filter' = <<lo, hi>>
    /\ UNCHANGED <<df, selected_countries, selected_genders, selected_kpi,
                   selected_chart_feature>>
    /\ Rerun

SelectKpi ==
    /\ \E option \in KpiOptions \ {selected_kpi} : selected_kpi' = option
    /\ UNCHANGED <<df, selected_countries, selected_genders, age_filter,
                   selected_chart_feature>>
    /\ Rerun

SelectChartFeature ==
    /\ \E option \in ChartOptions \ {selected_chart_feature} :
          selected_chart_feature' = option
    /\ UNCHANGED <<df, selected_countries, selected_genders, age_filter,
                   selected_kpi>>
    /\ Rerun

Next ==
    \/ SelectCountries
    \/ SelectGenders
    \/ SlideAge
    \/ SelectKpi
    \/ SelectChartFeature

Spec == Init /\ [][Next]_vars

----------------------------------------------------------------------------
(* The Trend Prediction tab alone, on every small view *)

\* the sequences of at most n members of S
RECURSIVE TuplesUpTo(_, _)
TuplesUpTo(S, n) ==
    IF n = 0 THEN {<<>>}
    ELSE LET shorter == TuplesUpTo(S, n - 1)
         IN  shorter \cup {Append(s[1], s[2]) : s \in shorter \X S}

TrendRows == {Row(1, "Male", 30, "Yes", "Yes", m, d) : m \in 0..MaxMonth, d \in {1, 28}}

TrendViews == TuplesUpTo(TrendRows, MaxTrendRows)

InitView(views) ==
    /\ filtered_data \in views
    /\ df = filtered_data
    /\ selected_countries = {}
    /\ selected_genders = {}
    /\ age_filter = age_default
    /\ selected_kpi = "age"
    /\ selected_chart_feature = "age"
    /\ country_counts = <<>>
    /\ family_history_by_country = <<>>
    /\ metrics = <<>>
    /\ time_data = <<>>
    /\ tabs_done = <<>>
    /\ error = "none"

InitTrend == InitView(TrendViews)

TrendTab ==
    /\ tabs_done = <<>>
    /\ error = "none"
    /\ Publish(TrendPrediction(Start(filtered_data)))
    /\ UNCHANGED <<df, widgets>>

SpecTrend == InitTrend /\ [][TrendTab]_vars

----------------------------------------------------------------------------
(* The Overview tab alone, on views of more countries than the chart keeps *)

FamilyRows(c, f, n) == [k \in 1..n |-> Row(c, "Male", 30, "No", f, 0, 1)]

\* the view that holds, per country c of 1..last, profile[c].yes records with
\* family history and profile[c].no without
RECURSIVE ViewOf(_, _)
ViewOf(profile, last) ==
    IF last = 0 THEN <<>>
    ELSE ViewOf(profile, last - 1)
            \o FamilyRows(last, "Yes", profile[last].yes)
            \o FamilyRows(last, "No", profile[last].no)

\* countries 1..width; country c has c \div 2 records with family history, one
\* more for the country raised; the countries of without have one record without
Profile(width, raised, without) ==
    [c \in 1..width |->
        [yes |-> c \div 2 + (IF c = raised THEN 1 ELSE 0),
         no |-> IF c \in without THEN 1 ELSE 0]]

OverviewViews ==
    {ViewOf(Profile(w, r, n), w) :
        w \in 1..NumCountries, r \in 0..NumCountries,
        n \in {{}, {c \in 1..NumCountries : c % 2 = 1}, 1..NumCountries}}

InitOverview == InitView(OverviewViews)

OverviewTab ==
    /\ tabs_done = <<>>
    /\ error = "none"
    /\ \E run \in Overview(Start(filtered_data)) : Publish(run)
    /\ UNCHANGED <<df, widgets>>

SpecOverview == InitOverview /\ [][OverviewTab]_vars

----------------------------------------------------------------------------
(* What the claims are stated in: the rows a FilterSpec selects, read off   *)
(* the widgets, and the tabs the latest run finished                        *)

Selected(r) ==
    /\ selected_countries = {} \/ r.country \in selected_countries
    /\ selected_genders = {} \/ r.gender \in selected_genders
    /\ age_filter[1] <= r.age
    /\ r.age <= age_filter[2]

Kept == {i \in DOMAIN df : Selected(df[i])}

ExpectedView == [k \in 1..Cardinality(Kept) |-> df[SortedSeq(Kept)[k]]]

Done(tab) == \E k \in DOMAIN tabs_done : tabs_done[k] = tab

ViewMonths == {MonthOf(filtered_data[i].timestamp) : i \in DOMAIN filtered_data}

InMonth(m) == Cardinality({i \in DOMAIN filtered_data :
                              MonthOf(filtered_data[i].timestamp) = m})

InCountry(c) == {i \in DOMAIN filtered_data : filtered_data[i].country = c}

WithHistory(c) == Cardinality({i \in InCountry(c) :
                                  filtered_data[i].family_history = "Yes"})

ChartCountries == {family_history_by_country[k].country :
                      k \in DOMAIN family_history_by_country}

----------------------------------------------------------------------------
(* Claims checked under Spec *)

\* C1: the filtered view is exactly the rows of the frame that satisfy the
\* country, gender and age predicates together, in the frame's order: every
\* row of the view satisfies them, every row that satisfies them is in it,
\* and with no country, no gender and the whole age range it is the frame.
C1_FilterKeepsExactlyMatchingRows ==
    /\ \A k \in DOMAIN filtered_data : Selected(filtered_data[k])
    /\ Len(filtered_data) = Cardinality(Kept)
    /\ filtered_data = ExpectedView
    /\ (/\ selected_countries = {}
        /\ selected_genders = {}
        /\ \A i \in DOMAIN df : age_filter[1] <= df[i].age /\ df[i].age <= age_filter[2])
       => filtered_data = df

\* C1 witness: all three predicates restrict, and the view keeps some rows
\* of the frame and drops others
C1_Witness ==
    /\ selected_countries # {}
    /\ selected_genders # {}
    /\ age_filter # age_default
    /\ filtered_data # <<>>
    /\ Len(filtered_data) < Len(df)

\* C2: an empty filtered view fails nothing: the run finishes every tab,
\* the tables are empty, Total Entries is 0 and the treatment rate is 0.0.
C2_EmptyViewCompletes ==
    filtered_data = <<>> =>
        /\ error = "none"
        /\ tabs_done = TabNames
        /\ country_counts = <<>>
        /\ family_history_by_country = <<>>
        /\ metrics["Total Entries"] = Rat(0, 1)
        /\ metrics["Currently Receiving Treatment"] = Rat(0, 1)

\* C3: when the run reaches the trend tab with a view of fewer than two
\* calendar months, no predicted series is fitted and the Data Table tab is
\* still produced.
C3_FewMonthsNoFitAndRecovers ==
    (Done("Visualizations") /\ Cardinality(ViewMonths) < 2) =>
        /\ \A k \in DOMAIN time_data :
              "predicted_treatment" \notin DOMAIN time_data[k]
        /\ Done("Data Table")

\* C6: with a categorical KPI feature no numeric average is produced, and
\* that is recovered from: Total Entries and the treatment rate are produced
\* and the later tabs are finished.
C6_CategoricalKpiRecovers ==
    (Done("Overview") /\ selected_kpi # "age") =>
        /\ "Average" \notin DOMAIN metrics
        /\ {"Total Entries", "Currently Receiving Treatment"} \subseteq DOMAIN metrics
        /\ Done("Visualizations")
        /\ Done("Data Table")

\* C7: when the Overview tab succeeds, the family-history chart has at most
\* TopN rows, one per country, each row carries a count for "Yes" and for
\* "No", and a row's counts add up to at most the country's rows in the view.
C7_ChartRowsCarryBothCategories ==
    Done("Overview") =>
        /\ Len(family_history_by_country) <= TopN
        /\ Cardinality(ChartCountries) = Len(family_history_by_country)
        /\ \A k \in DOMAIN family_history_by_country :
              LET row == family_history_by_country[k]
              IN  /\ YesNo \subseteq DOMAIN row.counts
                  /\ row.counts["Yes"] + row.counts["No"]
                        <= Cardinality(InCountry(row.country))

\* C8: no widget change alters the frame, and after every change the view
\* is the one the widgets' new values select from the frame, whatever was
\* selected or computed before.
C8_FrameFixedViewFromSelections ==
    [][df' = df /\ filtered_data' = ExpectedView']_vars

\* C8 witness: every widget has been changed from its first value
C8_Witness ==
    /\ selected_countries # {}
    /\ selected_genders # {}
    /\ age_filter # age_default
    /\ selected_kpi # "age"
    /\ selected_chart_feature # "age"
    /\ filtered_data # <<>>

\* C10: the age range lies within the ages of the frame, in every state,
\* the first included.
C10_AgeRangeWithinFrame ==
    /\ SetMin(unique(df, "age")) <= age_filter[1]
    /\ age_filter[1] <= age_filter[2]
    /\ age_filter[2] <= SetMax(unique(df, "age"))

----------------------------------------------------------------------------
(* Claims checked under SpecTrend *)

\* C4 as stated: a row per calendar month that holds a record of the view
\* and none for a month that holds none, in ascending order, month_index
\* 0, 1, 2, .. and the count of the month's records (at least 1) per row.
C4_OneRowPerObservedMonth ==
    Done("Trend Prediction") =>
        /\ Len(time_data) = Cardinality(ViewMonths)
        /\ \A k \in DOMAIN time_data :
              /\ time_data[k].timestamp = SortedSeq(ViewMonths)[k]
              /\ time_data[k].month_index = k - 1
              /\ time_data[k].treatment = InMonth(time_data[k].timestamp)
              /\ time_data[k].treatment >= 1

\* C4 amended: a row per calendar month from the first month of the view to
\* its last, in ascending order, a month in between that holds no record
\* being a row with count 0; month_index is 0, 1, 2, .., the calendar
\* distance from the first month; the count is the month's records.
C4_OneRowPerCalendarMonthInRange ==
    Done("Trend Prediction") =>
        /\ Len(time_data) = SetMax(ViewMonths) - SetMin(ViewMonths) + 1
        /\ \A k \in DOMAIN time_data :
              /\ time_data[k].timestamp = SetMin(ViewMonths) + k - 1
              /\ time_data[k].month_index = k - 1
              /\ time_data[k].month_index = time_data[k].timestamp - SetMin(ViewMonths)
              /\ time_data[k].treatment = InMonth(time_data[k].timestamp)

\* C4 witness: the series has a row for a month without records
C4_Witness ==
    /\ Done("Trend Prediction")
    /\ \E k \in DOMAIN time_data : time_data[k].treatment = 0

PerfectFit ==
    /\ Len(time_data) = 2
    /\ \A k \in DOMAIN time_data :
          time_data[k].predicted_treatment = Rat(time_data[k].treatment, 1)

\* C5 as stated: a view of exactly two calendar months, adjacent or not,
\* gives two points, each predicted exactly.
C5_TwoMonthsPerfectFit ==
    (Done("Trend Prediction") /\ Cardinality(ViewMonths) = 2) => PerfectFit

\* C5 amended: a view of exactly two adjacent calendar months gives two
\* points, each predicted exactly.
C5_TwoAdjacentMonthsPerfectFit ==
    (/\ Done("Trend Prediction")
     /\ Cardinality(ViewMonths) = 2
     /\ SetMax(ViewMonths) = SetMin(ViewMonths) + 1) => PerfectFit

\* C5 witness: two adjacent months with different counts
C5_Witness ==
    /\ Done("Trend Prediction")
    /\ Cardinality(ViewMonths) = 2
    /\ SetMax(ViewMonths) = SetMin(ViewMonths) + 1
    /\ time_data[1].treatment # time_data[2].treatment

----------------------------------------------------------------------------
(* Claims checked under SpecOverview *)

Position(c) == CHOOSE k \in DOMAIN family_history_by_country :
                  family_history_by_country[k].country = c

\* row of country b comes before row of country c in a stable descending
\* sort of the grouped table, whose rows are in ascending country order
StablyBefore(b, c) ==
    \/ WithHistory(b) > WithHistory(c)
    \/ WithHistory(b) = WithHistory(c) /\ b < c

SizeOfChart ==
    LET n == Cardinality(unique(filtered_data, "country"))
    IN  Len(family_history_by_country) = IF n < TopN THEN n ELSE TopN

\* C9 as stated: the chart's rows are the first TopN rows of a stable
\* descending sort by the "Yes" count: countries with equal counts keep the
\* grouped table's order and are cut off in that order.
C9_StableTopN ==
    Done("Overview") =>
        /\ SizeOfChart
        /\ \A c \in ChartCountries : \A b \in unique(filtered_data, "country") :
              StablyBefore(b, c) => (b \in ChartCountries /\ Position(b) < Position(c))

\* C9 amended: the chart's rows are in non-increasing order of the "Yes"
\* count and are the first TopN rows of a descending sort of the grouped
\* table: no country left out has a larger count than one kept.  The order
\* of countries with equal counts is not fixed.
C9_DescendingTopN ==
    Done("Overview") =>
        /\ SizeOfChart
        /\ ChartCountries \subseteq unique(filtered_data, "country")
        /\ Cardinality(ChartCountries) = Len(family_history_by_country)
        /\ \A k \in DOMAIN family_history_by_country :
              LET row == family_history_by_country[k]
              IN  /\ row.counts["Yes"] = WithHistory(row.country)
                  /\ k > 1 => family_history_by_country[k - 1].counts["Yes"]
                                  >= row.counts["Yes"]
                  /\ \A b \in unique(filtered_data, "country") \ ChartCountries :
                        WithHistory(b) <= row.counts["Yes"]

\* C9 witness: a country is cut off that has the same count as one kept
C9_Witness ==
    /\ Done("Overview")
    /\ \E b \in unique(filtered_data, "country") \ ChartCountries :
          \E c \in ChartCountries : WithHistory(b) = WithHistory(c)

====
